---- MODULE Spec2Model ----
(***************************************************************************)
(* Model of lanelet2_to_opendrive_local.py: the node table built by        *)
(* parse_lanelet2_local, the pure function calculate_geometry, and the     *)
(* per-relation loop of create_opendrive_local.                            *)
(*                                                                         *)
(* Numbers.  Python floats are modelled as a small binary floating-point   *)
(* format: a value is an integer count of units of 0.0025 (so 0.005 is 2,  *)
(* 0.01 is 4, 3.5 is 1400 and 10.0 is 4000) and the result of every        *)
(* arithmetic operation is rounded to MantBits significant bits, ties to   *)
(* even, as IEEE-754 rounds to 53.  Values below 2^MantBits units are on   *)
(* a grid of one unit.                                                     *)
(***************************************************************************)
EXTENDS Integers, Sequences, FiniteSets

VARIABLES
    pc,              \* which function is running and where
    doc,             \* parse_lanelet2_local: the <node> elements of the document
    ni,              \* parse_lanelet2_local: number of <node> elements consumed
    nodes,           \* the node table (id -> [x, y])
    ways,            \* the way table  (id -> sequence of node refs)
    relations,       \* the lanelet relations (each a sequence of members)
    ri,              \* create_opendrive_local: number of relations consumed
    road_id,         \* create_opendrive_local: road_id
    processed_roads, \* create_opendrive_local: processed_roads
    roads,           \* the <road> elements appended to the document so far
    locals,          \* the loop body's local variables, one record per relation
    returned,        \* create_opendrive_local's return value (-1 before it returns)
    points,          \* calculate_geometry: its argument
    gi,              \* calculate_geometry: number of segments consumed
    geometries,      \* calculate_geometry: geometries
    s_offset         \* calculate_geometry: s_offset

vars == <<pc, doc, ni, nodes, ways, relations, ri, road_id, processed_roads,
          roads, locals, returned, points, gi, geometries, s_offset>>

---------------------------------------------------------------------------
(* Bounds of the model. *)

\* significant bits of the modelled floating-point format
MantBits == 11
\* longest point sequence / way
MaxPts == 4
\* longest relation list
MaxRels == 3
\* longest member list of a relation
MaxMembers == 3
\* longest <node> list of a document
MaxNodes == 2
\* most <tag> children of a <node>
MaxTags == 3

---------------------------------------------------------------------------
(* Floating-point arithmetic. *)

RECURSIVE Pow2(_)
Pow2(n) == IF n = 0 THEN 1 ELSE 2 * Pow2(n - 1)

\* the least value whose mantissa needs more than MantBits bits
MantLimit == Pow2(MantBits)

\* spacing of the representable values around n >= 0
RECURSIVE Ulp(_)
Ulp(n) == IF n < MantLimit THEN 1 ELSE 2 * Ulp(n \div 2)

\* num/den (num >= 0, den > 0) rounded to the nearest representable value,
\* ties to the even mantissa
RoundNat(num, den) ==
    LET g == Ulp(num \div den)
        m == den * g
        k == num \div m
        r == num % m
        up == (2 * r > m) \/ (2 * r = m /\ k % 2 = 1)
    IN  (IF up THEN k + 1 ELSE k) * g

Round(num, den) == IF num < 0 THEN 0 - RoundNat(0 - num, den) ELSE RoundNat(num, den)

FAdd(a, b) == Round(a + b, 1)
FSub(a, b) == Round(a - b, 1)
FMul(a, b) == Round(a * b, 1)
FDiv(a, b) == Round(a, b)

\* floor of the square root of n, lo*lo <= n < hi*hi
RECURSIVE ISqrtIn(_, _, _)
ISqrtIn(n, lo, hi) ==
    IF hi - lo <= 1 THEN lo
    ELSE LET mid == (lo + hi) \div 2
         IN  IF mid * mid <= n THEN ISqrtIn(n, mid, hi) ELSE ISqrtIn(n, lo, mid)

\* math.sqrt: the correctly rounded square root
FSqrt(n) ==
    LET r == ISqrtIn(n, 0, 16384)
        g == Ulp(r)
        k == (r \div g) * g
        m == 2 * k + g
        up == (4 * n > m * m) \/ (4 * n = m * m /\ (k \div g) % 2 = 1)
    IN  IF up THEN k + g ELSE k

\* sqrt(dx*dx + dy*dy) as lines 74 and 169 compute it
Hypot(dx, dy) == FSqrt(FAdd(FMul(dx, dx), FMul(dy, dy)))

\* left-to-right floating-point sum of a sequence
RECURSIVE FSum(_)
FSum(s) == IF s = <<>> THEN 0 ELSE FAdd(FSum(SubSeq(s, 1, Len(s) - 1)), s[Len(s)])

---------------------------------------------------------------------------
(* calculate_geometry *)

\* the threshold 0.01 of line 76, in units of 0.0025
Epsilon == 4

Pt(x, y) == [x |-> x, y |-> y]

\* length of the segment from points[i] to points[i+1] (lines 69-74)
SegLength(pts, i) ==
    Hypot(FSub(pts[i + 1].x, pts[i].x), FSub(pts[i + 1].y, pts[i].y))

\* the test of line 76 with the threshold left out
Qualifies_AnyLength(length) == length > 0

\* the test of line 76
Qualifies(length) == length > Epsilon

\* the record appended at lines 78-84; hdg stands for atan2(dy, dx) and keeps
\* its two arguments
GeomRecord(pts, i, s) ==
    [s      |-> s,
     x      |-> pts[i].x,
     y      |-> pts[i].y,
     hdg    |-> <<FSub(pts[i + 1].y, pts[i].y), FSub(pts[i + 1].x, pts[i].x)>>,
     length |-> SegLength(pts, i)]

\* the offset after a qualifying segment (line 85)
Advance(s, length) == FAdd(s, length)

\* the loop body with line 85 moved out of the if
GeomStep_AdvanceAlways(pts, i, acc) ==
    IF Qualifies(SegLength(pts, i))
    THEN [geometries |-> Append(acc.geometries, GeomRecord(pts, i, acc.s_offset)),
          s_offset   |-> Advance(acc.s_offset, SegLength(pts, i))]
    ELSE [acc EXCEPT !.s_offset = Advance(acc.s_offset, SegLength(pts, i))]

\* one iteration of the loop of lines 68-85 on the pair (geometries, s_offset)
GeomStep(pts, i, acc) ==
    IF Qualifies(SegLength(pts, i))
    THEN [geometries |-> Append(acc.geometries, GeomRecord(pts, i, acc.s_offset)),
          s_offset   |-> Advance(acc.s_offset, SegLength(pts, i))]
    ELSE acc

RECURSIVE GeomLoop(_, _)
GeomLoop(pts, n) ==
    IF n = 0 THEN [geometries |-> <<>>, s_offset |-> 0]
    ELSE GeomStep(pts, n, GeomLoop(pts, n - 1))

\* calculate_geometry(points): the records and the total length
calculate_geometry(pts) ==
    IF Len(pts) < 2 THEN [geometries |-> <<>>, s_offset |-> 0]
    ELSE GeomLoop(pts, Len(pts) - 1)

---------------------------------------------------------------------------
(* create_opendrive_local: the body of the loop over the relations *)

\* Python's None, for left_way and right_way before a member matches
None == "<None>"

\* truth value of a member reference in the test of line 116
Truthy(ref) == ref # None /\ ref # ""

Member(type, ref, role) == [type |-> type, ref |-> ref, role |-> role]

\* the member scan keeping the first match instead of the last
ScanStep_FirstWins(member, found) ==
    IF member.role = "left" /\ member.type = "way"
    THEN IF found.left_way = None THEN [found EXCEPT !.left_way = member.ref] ELSE found
    ELSE IF member.role = "right" /\ member.type = "way"
         THEN IF found.right_way = None THEN [found EXCEPT !.right_way = member.ref]
              ELSE found
         ELSE found

\* one iteration of the member scan of lines 110-114 on (left_way, right_way)
ScanStep(member, found) ==
    IF member.role = "left" /\ member.type = "way"
    THEN [found EXCEPT !.left_way = member.ref]
    ELSE IF member.role = "right" /\ member.type = "way"
         THEN [found EXCEPT !.right_way = member.ref]
         ELSE found

\* the member scan of lines 107-114 over the first n members
RECURSIVE ScanMembers(_, _)
ScanMembers(members, n) ==
    IF n = 0 THEN [left_way |-> None, right_way |-> None]
    ELSE ScanStep(members[n], ScanMembers(members, n - 1))

\* the test of line 116
WaysUsable(wayTable, left_way, right_way) ==
    /\ Truthy(left_way)
    /\ Truthy(right_way)
    /\ left_way \in DOMAIN wayTable
    /\ right_way \in DOMAIN wayTable

\* the resolution with a dangling ref mapped to the origin instead of dropped
RECURSIVE ResolvePoints_DefaultOrigin(_, _)
ResolvePoints_DefaultOrigin(nodeTable, refs) ==
    IF refs = <<>> THEN <<>>
    ELSE LET rest == ResolvePoints_DefaultOrigin(nodeTable, SubSeq(refs, 1, Len(refs) - 1))
             nid  == refs[Len(refs)]
         IN  IF nid \in DOMAIN nodeTable THEN Append(rest, nodeTable[nid])
             ELSE Append(rest, Pt(0, 0))

\* [nodes[nid] for nid in refs if nid in nodes] (lines 120-121)
RECURSIVE ResolvePoints(_, _)
ResolvePoints(nodeTable, refs) ==
    IF refs = <<>> THEN <<>>
    ELSE LET rest == ResolvePoints(nodeTable, SubSeq(refs, 1, Len(refs) - 1))
             nid  == refs[Len(refs)]
         IN  IF nid \in DOMAIN nodeTable THEN Append(rest, nodeTable[nid]) ELSE rest

\* the test of line 123 with "or" for "and"
EnoughPoints_Either(left_points, right_points) ==
    Len(left_points) > 1 \/ Len(right_points) > 1

\* the test of line 123
EnoughPoints(left_points, right_points) ==
    Len(left_points) > 1 /\ Len(right_points) > 1

\* min_len of line 125
MinLen(left_points, right_points) ==
    IF Len(left_points) <= Len(right_points) THEN Len(left_points) ELSE Len(right_points)

\* the centerline of lines 127-130
Centerline(left_points, right_points, min_len) ==
    [i \in 1..min_len |->
        Pt(FDiv(FAdd(left_points[i].x, right_points[i].x), 2),
           FDiv(FAdd(left_points[i].y, right_points[i].y), 2))]

\* the test of line 132
CenterlineUsable(centerline_points) == Len(centerline_points) > 1

\* lane_widths of lines 165-169
LaneWidths(left_points, right_points, min_len) ==
    [i \in 1..min_len |->
        Hypot(FSub(left_points[i].x, right_points[i].x),
              FSub(left_points[i].y, right_points[i].y))]

\* the fallback width 3.5 of line 170, in units of 0.0025
DefaultWidth == 1400

\* the mean with the count off by one
Mean_OffByOne(values) == FDiv(FSum(values), Len(values) + 1)

\* np.mean of a non-empty list of fewer than 8 floats: the left-to-right sum
\* divided by the count
Mean(values) == FDiv(FSum(values), Len(values))

\* avg_width of line 170
AvgWidth(lane_widths) == IF lane_widths # <<>> THEN Mean(lane_widths) ELSE DefaultWidth

\* str() of a non-negative int: its decimal digits
RECURSIVE IntStr(_)
IntStr(n) ==
    LET digit == <<"0", "1", "2", "3", "4", "5", "6", "7", "8", "9">>[(n % 10) + 1]
    IN  IF n < 10 THEN <<digit>> ELSE Append(IntStr(n \div 10), digit)

\* the <road> element with ids counted from 1
RoadElement_OneBased(rid, geom, avg_width) ==
    [name     |-> <<"R", "o", "a", "d", "_">> \o IntStr(rid + 1),
     id       |-> IntStr(rid + 1),
     junction |-> "-1",
     length   |-> geom.s_offset,
     planView |-> geom.geometries,
     width_a  |-> avg_width]

\* the <road> element of lines 133-190.  Its float attributes (length, the
\* geometry records' s/x/y/length, the width's a) are kept as the floats
\* handed to str(), which prints a float so that it reads back unchanged; the
\* constant children (elevationProfile, center lane, roadMark) are left out.
RoadElement(rid, geom, avg_width) ==
    [name     |-> <<"R", "o", "a", "d", "_">> \o IntStr(rid),
     id       |-> IntStr(rid),
     junction |-> "-1",
     length   |-> geom.s_offset,
     planView |-> geom.geometries,
     width_a  |-> avg_width]

\* the local variables of one iteration of the loop of lines 106-193, and how
\* far the iteration got: "members" (line 116 failed), "points" (line 123
\* failed), "centerline" (line 132 failed) or "road" (a road was appended)
LoopBody(nodeTable, wayTable, relation) ==
    LET found == ScanMembers(relation.members, Len(relation.members))
        unset == [left_way |-> found.left_way, right_way |-> found.right_way,
                  left_points |-> <<>>, right_points |-> <<>>, min_len |-> 0,
                  centerline_points |-> <<>>, lane_widths |-> <<>>,
                  reached |-> "members"]
    IN  IF ~WaysUsable(wayTable, found.left_way, found.right_way) THEN unset
        ELSE
        LET lp == ResolvePoints(nodeTable, wayTable[found.left_way].nodes)
            rp == ResolvePoints(nodeTable, wayTable[found.right_way].nodes)
            atPoints == [unset EXCEPT !.left_points = lp, !.right_points = rp,
                                      !.reached = "points"]
        IN  IF ~EnoughPoints(lp, rp) THEN atPoints
            ELSE
            LET ml == MinLen(lp, rp)
                cl == Centerline(lp, rp, ml)
                atCenter == [atPoints EXCEPT !.min_len = ml,
                                             !.centerline_points = cl,
                                             !.reached = "centerline"]
            IN  IF ~CenterlineUsable(cl) THEN atCenter
                ELSE [atCenter EXCEPT !.lane_widths = LaneWidths(lp, rp, ml),
                                      !.reached = "road"]

\* the counters with lines 192-193 moved out of the ifs
CounterAfter_EveryRelation(counter, reached) == counter + 1

\* road_id and processed_roads after an iteration (lines 192-193 are inside
\* the innermost if)
CounterAfter(counter, reached) == IF reached = "road" THEN counter + 1 ELSE counter

\* one iteration of the loop of lines 106-193 on the document's roads and the
\* two counters
LoopStep(nodeTable, wayTable, st, relation) ==
    LET body == LoopBody(nodeTable, wayTable, relation)
    IN  [roads |->
            IF body.reached = "road"
            THEN Append(st.roads,
                        RoadElement(st.road_id,
                                    calculate_geometry(body.centerline_points),
                                    AvgWidth(body.lane_widths)))
            ELSE st.roads,
         road_id |-> CounterAfter(st.road_id, body.reached),
         processed_roads |-> CounterAfter(st.processed_roads, body.reached)]

\* lines 103-193 over the first n relations of a list
RECURSIVE RunLoop(_, _, _, _)
RunLoop(nodeTable, wayTable, rels, n) ==
    IF n = 0 THEN [roads |-> <<>>, road_id |-> 0, processed_roads |-> 0]
    ELSE LoopStep(nodeTable, wayTable, RunLoop(nodeTable, wayTable, rels, n - 1), rels[n])

---------------------------------------------------------------------------
(* create_opendrive_local as a state machine *)

Current == [roads |-> roads, road_id |-> road_id, processed_roads |-> processed_roads]

\* one iteration of the loop that appends a <road>
EmitRoad ==
    /\ pc = "build"
    /\ ri < Len(relations)
    /\ LoopBody(nodes, ways, relations[ri + 1]).reached = "road"
    /\ LET st == LoopStep(nodes, ways, Current, relations[ri + 1])
       IN  /\ roads' = st.roads
           /\ road_id' = st.road_id
           /\ processed_roads' = st.processed_roads
    /\ locals' = Append(locals, LoopBody(nodes, ways, relations[ri + 1]))
    /\ ri' = ri + 1
    /\ UNCHANGED <<pc, doc, ni, nodes, ways, relations, returned,
                   points, gi, geometries, s_offset>>

\* one iteration of the loop that appends nothing
SkipRelation ==
    /\ pc = "build"
    /\ ri < Len(relations)
    /\ LoopBody(nodes, ways, relations[ri + 1]).reached # "road"
    /\ LET st == LoopStep(nodes, ways, Current, relations[ri + 1])
       IN  /\ roads' = st.roads
           /\ road_id' = st.road_id
           /\ processed_roads' = st.processed_roads
    /\ locals' = Append(locals, LoopBody(nodes, ways, relations[ri + 1]))
    /\ ri' = ri + 1
    /\ UNCHANGED <<pc, doc, ni, nodes, ways, relations, returned,
                   points, gi, geometries, s_offset>>

\* lines 195-198: the document is written and processed_roads returned
WriteAndReturn ==
    /\ pc = "build"
    /\ ri = Len(relations)
    /\ returned' = processed_roads
    /\ pc' = "done"
    /\ UNCHANGED <<doc, ni, nodes, ways, relations, ri, road_id, processed_roads,
                   roads, locals, points, gi, geometries, s_offset>>

---------------------------------------------------------------------------
(* Inputs of create_opendrive_local *)

SeqsUpTo(S, n) == UNION {[1..k -> S] : k \in 0..n}

Way(refs) == [nodes |-> refs]
Relation(members) == [members |-> members]

\* a node ref with no entry in any node table
Dangling == "9"

\* three nodes on a line at distance 6.83 from each other
NodesEquidistant ==
    [id \in {"1", "2", "3"} |->
        CASE id = "1" -> Pt(0, 0) [] id = "2" -> Pt(0, 2732) [] id = "3" -> Pt(0, 5464)]

\* two nodes 0.005 apart and one 10 away
NodesMicro ==
    [id \in {"1", "2", "3"} |->
        CASE id = "1" -> Pt(0, 0) [] id = "2" -> Pt(0, 2) [] id = "3" -> Pt(0, 4000)]

\* nodes "1","2" on y = 0 and "3","4" on y = 3.5, at x = 0 and x = 10
NodesLane ==
    [id \in {"1", "2", "3", "4"} |->
        CASE id = "1" -> Pt(0, 0) [] id = "2" -> Pt(4000, 0)
          [] id = "3" -> Pt(0, 1400) [] id = "4" -> Pt(4000, 1400)]

NodeTables == {NodesEquidistant, NodesMicro}

LeftRight == Relation(<<Member("way", "w1", "left"), Member("way", "w2", "right")>>)

FixedWays == {<<>>, <<"1">>, <<"1", "2">>, <<"1", "2", "1">>, <<"1", "1", "1">>,
              <<"3", "1", "2", "3">>, <<Dangling, "1", Dangling, "2">>}

\* one left/right relation over two ways, one of them any sequence of refs
\* the way table of the inputs that vary the ways
TwoWays(left, right) == [w \in {"w1", "w2"} |-> Way(IF w = "w1" THEN left ELSE right)]

\* the way table of the inputs that vary the relations: "w3" has one point,
\* "w9" is absent
LaneWays ==
    [w \in {"w1", "w2", "w3"} |->
        CASE w = "w1" -> Way(<<"1", "2">>) [] w = "w2" -> Way(<<"3", "4">>)
          [] w = "w3" -> Way(<<"1", Dangling>>)]

MemberPool ==
    {Member("way", r, o) : r \in {"w1", "w2", "w9"}, o \in {"left", "right"}}
        \cup {Member("node", "w1", "left"), Member("node", "w2", "right"),
              Member("way", "w1", "centerline")}

RelationPool ==
    {LeftRight,
     Relation(<<Member("way", "w2", "left"), Member("way", "w1", "right")>>),
     Relation(<<Member("way", "w2", "right")>>),
     Relation(<<Member("way", "w9", "left"), Member("way", "w2", "right")>>),
     Relation(<<Member("way", "w3", "left"), Member("way", "w2", "right")>>)}

\* the state at lines 103-104 for the given arguments
Start(nodeTable, wayTable, rels) ==
    /\ nodes = nodeTable
    /\ ways = wayTable
    /\ relations = rels
    /\ pc = "build"
    /\ ri = 0
    /\ road_id = 0
    /\ processed_roads = 0
    /\ roads = <<>>
    /\ locals = <<>>
    /\ returned = -1
    /\ doc = <<>>
    /\ ni = 0
    /\ points = <<>>
    /\ gi = 0
    /\ geometries = <<>>
    /\ s_offset = 0

\* the arguments are: one left/right relation over two ways, one of them any
\* sequence of refs; or one relation with any member list; or any list of
\* relations of a few shapes
Init ==
    \/ \E t \in NodeTables, fixed \in FixedWays :
          \E free \in SeqsUpTo(DOMAIN t \cup {Dangling}, MaxPts) :
              \/ Start(t, TwoWays(free, fixed), <<LeftRight>>)
              \/ Start(t, TwoWays(fixed, free), <<LeftRight>>)
    \/ \E m \in SeqsUpTo(MemberPool, MaxMembers) :
          Start(NodesLane, LaneWays, <<Relation(m)>>)
    \/ \E r \in SeqsUpTo(RelationPool, MaxRels) :
          Start(NodesLane, LaneWays, r)

Next == EmitRoad \/ SkipRelation \/ WriteAndReturn

Spec == Init /\ [][Next]_vars

---------------------------------------------------------------------------
(* calculate_geometry as a state machine, one loop iteration per step *)

\* the loop of lines 68-85 takes a segment longer than the threshold
GeomEmit ==
    /\ pc = "geom"
    /\ gi < Len(points) - 1
    /\ Qualifies(SegLength(points, gi + 1))
    /\ LET acc == GeomStep(points, gi + 1,
                           [geometries |-> geometries, s_offset |-> s_offset])
       IN  geometries' = acc.geometries /\ s_offset' = acc.s_offset
    /\ gi' = gi + 1
    /\ UNCHANGED <<pc, doc, ni, nodes, ways, relations, ri, road_id,
                   processed_roads, roads, locals, returned, points>>

\* the loop of lines 68-85 passes over a segment
GeomSkip ==
    /\ pc = "geom"
    /\ gi < Len(points) - 1
    /\ ~Qualifies(SegLength(points, gi + 1))
    /\ LET acc == GeomStep(points, gi + 1,
                           [geometries |-> geometries, s_offset |-> s_offset])
       IN  geometries' = acc.geometries /\ s_offset' = acc.s_offset
    /\ gi' = gi + 1
    /\ UNCHANGED <<pc, doc, ni, nodes, ways, relations, ri, road_id,
                   processed_roads, roads, locals, returned, points>>

\* line 87: (geometries, s_offset) is returned
GeomReturn ==
    /\ pc = "geom"
    /\ gi >= Len(points) - 1
    /\ pc' = "geom_done"
    /\ UNCHANGED <<doc, ni, nodes, ways, relations, ri, road_id, processed_roads,
                   roads, locals, returned, points, gi, geometries, s_offset>>

\* (0,0), (0,0.005), (0,10) and (3,4)
GeomPoints == {Pt(0, 0), Pt(0, 2), Pt(0, 4000), Pt(1200, 1600)}

InitGeom ==
    /\ points \in SeqsUpTo(GeomPoints, MaxPts)
    /\ pc = "geom"
    /\ gi = 0
    /\ geometries = <<>>
    /\ s_offset = 0
    /\ doc = <<>>
    /\ ni = 0
    /\ nodes = <<>>
    /\ ways = <<>>
    /\ relations = <<>>
    /\ ri = 0
    /\ road_id = 0
    /\ processed_roads = 0
    /\ roads = <<>>
    /\ locals = <<>>
    /\ returned = -1

NextGeom == GeomEmit \/ GeomSkip \/ GeomReturn

SpecGeom == InitGeom /\ [][NextGeom]_vars

---------------------------------------------------------------------------
(* parse_lanelet2_local: the node table *)

Digits == <<"0", "1", "2", "3", "4", "5", "6", "7", "8", "9">>

IsDigit(c) == \E d \in 1..10 : Digits[d] = c

DigitVal(c) == (CHOOSE d \in 1..10 : Digits[d] = c) - 1

\* the number a digit string denotes
RECURSIVE DigitsVal(_)
DigitsVal(cs) ==
    IF cs = <<>> THEN 0
    ELSE 10 * DigitsVal(SubSeq(cs, 1, Len(cs) - 1)) + DigitVal(cs[Len(cs)])

RECURSIVE Pow10(_)
Pow10(n) == IF n = 0 THEN 1 ELSE 10 * Pow10(n - 1)

\* float(v) for the decimal literals [-]digits[.digits]: <<x>>, the literal's
\* value in units of 0.0025 rounded to the nearest float, or <<>> where float
\* raises ValueError
ParseFloat(cs) ==
    LET neg   == cs # <<>> /\ cs[1] = "-"
        body  == IF neg THEN SubSeq(cs, 2, Len(cs)) ELSE cs
        dots  == {i \in 1..Len(body) : body[i] = "."}
        dot   == IF dots = {} THEN Len(body) + 1 ELSE CHOOSE i \in dots : TRUE
        whole == SubSeq(body, 1, dot - 1)
        frac  == SubSeq(body, dot + 1, Len(body))
        ok    == /\ Cardinality(dots) <= 1
                 /\ Len(whole) + Len(frac) > 0
                 /\ \A i \in 1..Len(whole) : IsDigit(whole[i])
                 /\ \A i \in 1..Len(frac) : IsDigit(frac[i])
        mag   == Round(DigitsVal(whole \o frac) * 100 * Epsilon, Pow10(Len(frac)))
    IN  IF ~ok THEN <<>> ELSE IF neg THEN <<0 - mag>> ELSE <<mag>>

Tag(k, v) == [k |-> k, v |-> v]
NodeElem(id, tags) == [id |-> id, tags |-> tags]

\* one iteration of the tag loop of lines 15-19 on (local_x, local_y); None is
\* <<>>, and error is set where float raised
TagStep(tag, coords) ==
    IF coords.error THEN coords
    ELSE IF tag.k = "local_x"
         THEN IF ParseFloat(tag.v) = <<>> THEN [coords EXCEPT !.error = TRUE]
              ELSE [coords EXCEPT !.local_x = ParseFloat(tag.v)]
         ELSE IF tag.k = "local_y"
              THEN IF ParseFloat(tag.v) = <<>> THEN [coords EXCEPT !.error = TRUE]
                   ELSE [coords EXCEPT !.local_y = ParseFloat(tag.v)]
              ELSE coords

\* lines 13-19 over the first n tags
RECURSIVE ScanTags(_, _)
ScanTags(tags, n) ==
    IF n = 0 THEN [local_x |-> <<>>, local_y |-> <<>>, error |-> FALSE]
    ELSE TagStep(tags[n], ScanTags(tags, n - 1))

\* the test of line 21 as "if local_x and local_y"
HasBoth_Truthy(coords) ==
    /\ coords.local_x # <<>> /\ coords.local_x # <<0>>
    /\ coords.local_y # <<>> /\ coords.local_y # <<0>>

\* the test of line 21
HasBoth(coords) == coords.local_x # <<>> /\ coords.local_y # <<>>

\* nodes[node_id] = {...} (line 22): the table with one entry set
Store(table, id, value) ==
    [k \in DOMAIN table \cup {id} |-> IF k = id THEN value ELSE table[k]]

\* the node table after one <node> element (lines 12-22)
NodeStep(table, elem) ==
    LET coords == ScanTags(elem.tags, Len(elem.tags))
    IN  IF HasBoth(coords)
        THEN Store(table, elem.id, Pt(coords.local_x[1], coords.local_y[1]))
        ELSE table

\* one iteration of the loop of lines 11-22
ParseNode ==
    /\ pc = "parse"
    /\ ni < Len(doc)
    /\ ~ScanTags(doc[ni + 1].tags, Len(doc[ni + 1].tags)).error
    /\ nodes' = NodeStep(nodes, doc[ni + 1])
    /\ ni' = ni + 1
    /\ UNCHANGED <<pc, doc, ways, relations, ri, road_id, processed_roads, roads,
                   locals, returned, points, gi, geometries, s_offset>>

\* float() raises ValueError at line 17 or 19 and the program ends
ParseNodeError ==
    /\ pc = "parse"
    /\ ni < Len(doc)
    /\ ScanTags(doc[ni + 1].tags, Len(doc[ni + 1].tags)).error
    /\ pc' = "parse_error"
    /\ UNCHANGED <<doc, ni, nodes, ways, relations, ri, road_id, processed_roads,
                   roads, locals, returned, points, gi, geometries, s_offset>>

\* the loop of lines 11-22 ends; the node table is the one returned at line 62
ParseNodesDone ==
    /\ pc = "parse"
    /\ ni = Len(doc)
    /\ pc' = "parsed"
    /\ UNCHANGED <<doc, ni, nodes, ways, relations, ri, road_id, processed_roads,
                   roads, locals, returned, points, gi, geometries, s_offset>>

TagPool ==
    {Tag("local_x", <<"0">>), Tag("local_x", <<"3", ".", "5">>),
     Tag("local_y", <<"0", ".", "0", "0", "5">>), Tag("local_y", <<"-", "1", "0">>),
     Tag("local_y", <<"a">>), Tag("name", <<"a">>)}

FixedElems ==
    {NodeElem("1", <<Tag("local_x", <<"3", ".", "5">>), Tag("local_y", <<"-", "1", "0">>)>>),
     NodeElem("1", <<Tag("local_x", <<"0">>), Tag("local_y", <<"0">>)>>),
     NodeElem("1", <<Tag("local_x", <<"0">>)>>),
     NodeElem("2", <<Tag("local_y", <<"1", "0">>), Tag("local_x", <<"1", "0">>)>>)}

FreeElems == {NodeElem(id, t) : id \in {"1", "2"}, t \in SeqsUpTo(TagPool, MaxTags)}

\* documents of a few fixed <node> elements, and documents of one <node> with
\* any tag list before or after a fixed one
Docs ==
    SeqsUpTo(FixedElems, MaxNodes)
        \cup {<<e>> : e \in FreeElems}
        \cup {<<f, e>> : f \in FixedElems, e \in FreeElems}
        \cup {<<e, f>> : f \in FixedElems, e \in FreeElems}

InitParse ==
    /\ doc \in Docs
    /\ pc = "parse"
    /\ ni = 0
    /\ nodes = <<>>
    /\ ways = <<>>
    /\ relations = <<>>
    /\ ri = 0
    /\ road_id = 0
    /\ processed_roads = 0
    /\ roads = <<>>
    /\ locals = <<>>
    /\ returned = -1
    /\ points = <<>>
    /\ gi = 0
    /\ geometries = <<>>
    /\ s_offset = 0

NextParse == ParseNode \/ ParseNodeError \/ ParseNodesDone

SpecParse == InitParse /\ [][NextParse]_vars

---------------------------------------------------------------------------
(* Properties of create_opendrive_local (specification Spec) *)

MaxOf(S) == CHOOSE m \in S : \A k \in S : k <= m
MinOf(S) == CHOOSE m \in S : \A k \in S : m <= k
Abs(n) == IF n < 0 THEN 0 - n ELSE n

\* the relations consumed so far that produced a road, and the relation that
\* produced the k-th road
EmittedIdx == {j \in 1..Len(locals) : locals[j].reached = "road"}
SourceOf(k) == CHOOSE j \in EmittedIdx : Cardinality({i \in EmittedIdx : i <= j}) = k

\* positions of the members of a relation that name its left (right) way
RoleIdx(members, role) ==
    {k \in 1..Len(members) : members[k].role = role /\ members[k].type = "way"}

\* positions of the refs of a way that have an entry in the node table
ResolvableIdx(refs) == {k \in 1..Len(refs) : refs[k] \in DOMAIN nodes}

\* pts is refs mapped through the node table with the dangling refs dropped
\* and the order of the others kept
IsResolutionOf(pts, refs) ==
    /\ Len(pts) = Cardinality(ResolvableIdx(refs))
    /\ \A k \in ResolvableIdx(refs) :
          pts[Cardinality({i \in ResolvableIdx(refs) : i <= k})] = nodes[refs[k]]

\* the lengths of the records of a planView
Lengths(planView) == [k \in 1..Len(planView) |-> planView[k].length]

\* the distance between the boundary points at index i, for the relation at j
Separation(j, i) ==
    Hypot(FSub(locals[j].left_points[i].x, locals[j].right_points[i].x),
          FSub(locals[j].left_points[i].y, locals[j].right_points[i].y))

\* the number of aligned indices of the relation at j
Aligned(j) ==
    IF Len(locals[j].left_points) <= Len(locals[j].right_points)
    THEN Len(locals[j].left_points) ELSE Len(locals[j].right_points)

\* the boundaries of the relation at j are at the same separation at every
\* aligned index
ConstantSeparation(j) == \A i \in 1..Aligned(j) : Separation(j, i) = Separation(j, 1)

\* C1: every road element of the output has at least one geometry record in
\* its planView.
C1_EveryRoadHasGeometry ==
    \A k \in 1..Len(roads) : Len(roads[k].planView) >= 1

\* C2: the roads carry the ids 0, 1, ..., n-1 in relation-list order, n is the
\* returned count, and a skipped relation consumes no id and leaves the
\* counters alone.
C2_DenseRoadIds ==
    /\ Len(roads) = Cardinality(EmittedIdx)
    /\ road_id = Len(roads)
    /\ processed_roads = Len(roads)
    /\ \A k \in 1..Len(roads) :
          /\ \A c \in 1..Len(roads[k].id) : IsDigit(roads[k].id[c])
          /\ DigitsVal(roads[k].id) = k - 1
          /\ roads[k].planView =
                calculate_geometry(locals[SourceOf(k)].centerline_points).geometries
    /\ pc = "done" => returned = Len(roads)

C2_Witness ==
    /\ pc = "done"
    /\ returned = 2
    /\ locals[2].reached = "members"
    /\ locals[3].reached = "road"
    /\ roads[2].id = <<"1">>

\* C3: the lengths of a road's geometry records sum to its length attribute,
\* and each record's s is the sum of the lengths of the records before it.
C3_LengthsSumToLength ==
    \A k \in 1..Len(roads) :
        /\ roads[k].length = FSum(Lengths(roads[k].planView))
        /\ \A g \in 1..Len(roads[k].planView) :
              roads[k].planView[g].s =
                  FSum(SubSeq(Lengths(roads[k].planView), 1, g - 1))

\* a road of two records whose centerline has a skipped segment between them
C3_Witness ==
    \E k \in 1..Len(roads) :
        /\ Len(roads[k].planView) = 2
        /\ Len(locals[SourceOf(k)].centerline_points) = 4
        /\ roads[k].planView[2].s > 0
        /\ roads[k].planView[1].x = locals[SourceOf(k)].centerline_points[1].x
        /\ roads[k].planView[1].y = locals[SourceOf(k)].centerline_points[1].y
        /\ roads[k].planView[2].x = locals[SourceOf(k)].centerline_points[3].x
        /\ roads[k].planView[2].y = locals[SourceOf(k)].centerline_points[3].y

\* C5: removing every skipped relation from the list yields the same road
\* elements and the same returned count.
C5_SkippedRelationsInvisible ==
    pc = "done" =>
        LET kept == [k \in 1..Cardinality(EmittedIdx) |-> relations[SourceOf(k)]]
            run  == RunLoop(nodes, ways, kept, Len(kept))
        IN  run.roads = roads /\ run.processed_roads = returned

C5_Witness ==
    /\ pc = "done"
    /\ Len(relations) = 3
    /\ locals[1].reached = "members"
    /\ locals[2].reached = "road"
    /\ locals[3].reached = "points"

\* C6: the boundary used is the one named by the last member with role left
\* (right) and type way, and the relation is skipped when that reference is
\* missing from the way table.
C6_LastMemberWins ==
    \A j \in 1..Len(locals) :
        LET m == relations[j].members
            L == RoleIdx(m, "left")
            R == RoleIdx(m, "right")
        IN  /\ locals[j].left_way = (IF L = {} THEN None ELSE m[MaxOf(L)].ref)
            /\ locals[j].right_way = (IF R = {} THEN None ELSE m[MaxOf(R)].ref)
            /\ (L # {} /\ m[MaxOf(L)].ref \notin DOMAIN ways)
                  => locals[j].reached = "members"
            /\ (R # {} /\ m[MaxOf(R)].ref \notin DOMAIN ways)
                  => locals[j].reached = "members"
            /\ locals[j].reached # "members" =>
                  /\ locals[j].left_points =
                        ResolvePoints(nodes, ways[m[MaxOf(L)].ref].nodes)
                  /\ locals[j].right_points =
                        ResolvePoints(nodes, ways[m[MaxOf(R)].ref].nodes)

\* the first left member names an existing way, the last one a missing way
C6_Witness ==
    \E j \in 1..Len(locals) :
        LET m == relations[j].members
            L == RoleIdx(m, "left")
        IN  /\ Cardinality(L) = 2
            /\ RoleIdx(m, "right") # {}
            /\ m[MaxOf(RoleIdx(m, "right"))].ref \in DOMAIN ways
            /\ m[MinOf(L)].ref \in DOMAIN ways
            /\ m[MaxOf(L)].ref \notin DOMAIN ways
            /\ locals[j].reached = "members"

\* C7: no road is emitted for a relation whose left or right way resolves to
\* fewer than 2 points; resolving drops the dangling refs and keeps the order
\* of the others.
C7_TooFewPointsNeverEmitted ==
    /\ Len(roads) = Cardinality(EmittedIdx)
    /\ \A j \in 1..Len(locals) :
        locals[j].reached # "members" =>
            LET lrefs == ways[locals[j].left_way].nodes
                rrefs == ways[locals[j].right_way].nodes
            IN  /\ IsResolutionOf(locals[j].left_points, lrefs)
                /\ IsResolutionOf(locals[j].right_points, rrefs)
                /\ (Cardinality(ResolvableIdx(lrefs)) < 2
                      \/ Cardinality(ResolvableIdx(rrefs)) < 2)
                      => locals[j].reached # "road"

\* the left way has refs but resolves to one point, the right way to several
C7_Witness ==
    \E j \in 1..Len(locals) :
        /\ locals[j].reached = "points"
        /\ Len(ways[locals[j].left_way].nodes) >= 3
        /\ Len(locals[j].left_points) = 1
        /\ Len(locals[j].right_points) >= 3

\* C9: at constant separation d over the aligned indices the width written
\* for the right lane is d exactly.
C9_WidthExactlyD ==
    \A k \in 1..Len(roads) :
        ConstantSeparation(SourceOf(k)) =>
            roads[k].width_a = Separation(SourceOf(k), 1)

\* C9 as amended: the width is the floating-point mean of the samples over
\* the aligned indices, which is d up to the rounding of the sum and the
\* division (relative error at most minLen * 2^-(MantBits-1)), and d exactly
\* for two aligned indices.
C9_WidthNearD ==
    \A k \in 1..Len(roads) :
        ConstantSeparation(SourceOf(k)) =>
            LET d == Separation(SourceOf(k), 1)
                n == Aligned(SourceOf(k))
            IN  /\ Abs(roads[k].width_a - d) * (MantLimit \div 2) <= n * d
                /\ n = 2 => roads[k].width_a = d

\* constant separation over three aligned indices, one boundary longer
C9_Witness ==
    \E k \in 1..Len(roads) :
        /\ ConstantSeparation(SourceOf(k))
        /\ Aligned(SourceOf(k)) = 3
        /\ Len(locals[SourceOf(k)].left_points) = 4
        /\ Separation(SourceOf(k), 1) > 0
        /\ roads[k].width_a # Separation(SourceOf(k), 1)

\* C10: the width computation is only reached with minLen >= 2, so the
\* sample list is never empty and the fallback width is never taken.
C10_FallbackUnreachable ==
    \A j \in 1..Len(locals) :
        /\ locals[j].reached \in {"centerline", "road"} => locals[j].min_len >= 2
        /\ locals[j].reached = "road" =>
              /\ Len(locals[j].lane_widths) = locals[j].min_len
              /\ locals[j].lane_widths # <<>>

\* a road whose width is 3.5 because its two samples are 3.5
C10_Witness ==
    \E k \in 1..Len(roads) :
        /\ roads[k].width_a = DefaultWidth
        /\ locals[SourceOf(k)].min_len = 2
        /\ locals[SourceOf(k)].lane_widths = <<DefaultWidth, DefaultWidth>>

---------------------------------------------------------------------------
(* Properties of calculate_geometry (specification SpecGeom) *)

\* (0,0), (0,0.005), (0,10)
MicroThenLong == <<Pt(0, 0), Pt(0, 2), Pt(0, 4000)>>

\* the segments of the argument that are longer than the threshold
QualifyingIdx ==
    {i \in 1..(Len(points) - 1) :
        Hypot(FSub(points[i + 1].x, points[i].x), FSub(points[i + 1].y, points[i].y))
            > Epsilon}

\* C4: on (0,0), (0,0.005), (0,10) the one record produced spans from (0,0)
\* to (0,10): start (0,0), s = 0, length 10.0, total length 10.0.
C4_RecordSpansSkippedSegment ==
    (pc = "geom_done" /\ points = MicroThenLong) =>
        /\ Len(geometries) = 1
        /\ geometries[1].s = 0
        /\ geometries[1].x = 0
        /\ geometries[1].y = 0
        /\ geometries[1].length = 4000
        /\ s_offset = 4000

\* C4 as amended: on (0,0), (0,0.005), (0,10) the one record produced is the
\* second segment's: start (0,0.005), s = 0, length 9.995, total length 9.995.
\* In general the records are the qualifying segments in order, each starting
\* at its own segment's first point with its own segment's length, and the
\* total is the sum of their lengths.
C4_RecordIsSecondSegment ==
    pc = "geom_done" =>
        /\ points = MicroThenLong =>
              /\ Len(geometries) = 1
              /\ geometries[1].s = 0
              /\ geometries[1].x = 0
              /\ geometries[1].y = 2
              /\ geometries[1].length = 3998
              /\ s_offset = 3998
        /\ Len(geometries) = Cardinality(QualifyingIdx)
        /\ \A i \in QualifyingIdx :
              LET g == geometries[Cardinality({q \in QualifyingIdx : q <= i})]
              IN  /\ g.x = points[i].x
                  /\ g.y = points[i].y
                  /\ g.length = Hypot(FSub(points[i + 1].x, points[i].x),
                                      FSub(points[i + 1].y, points[i].y))
        /\ s_offset = FSum(Lengths(geometries))

C4_Witness ==
    /\ pc = "geom_done"
    /\ points = MicroThenLong
    /\ gi = 2
    /\ Len(geometries) = 1

---------------------------------------------------------------------------
(* Properties of parse_lanelet2_local (specification SpecParse) *)

\* positions of the tags of a <node> element with key k
TagIdx(elem, k) == {t \in 1..Len(elem.tags) : elem.tags[t].k = k}

HasBothTags(elem) == TagIdx(elem, "local_x") # {} /\ TagIdx(elem, "local_y") # {}

\* the values of the tags of a <node> element with key k, as floats
TagValues(elem, k) == {ParseFloat(elem.tags[t].v)[1] : t \in TagIdx(elem, k)}

\* the value of the last tag of a <node> element with key k, as a float
LastTagValue(elem, k) == ParseFloat(elem.tags[MaxOf(TagIdx(elem, k))].v)[1]

\* the <node> elements consumed so far that have id and both coordinate tags
CompleteIdx(id) == {e \in 1..ni : doc[e].id = id /\ HasBothTags(doc[e])}

\* C8: every node element with both tags is in the node table under its id
\* with its coordinates, and no node element missing a tag has an entry.
C8_EveryNodeElementDecides ==
    pc = "parsed" =>
        \A e \in 1..Len(doc) :
            IF HasBothTags(doc[e])
            THEN /\ doc[e].id \in DOMAIN nodes
                 /\ nodes[doc[e].id].x \in TagValues(doc[e], "local_x")
                 /\ nodes[doc[e].id].y \in TagValues(doc[e], "local_y")
            ELSE doc[e].id \notin DOMAIN nodes

\* C8 as amended: an id has an entry iff some node element with that id has
\* both tags, and the entry holds the coordinates of the last such element,
\* each taken from the last tag with its key.
C8_LastCompleteElementDecides ==
    \A id \in DOMAIN nodes \cup {doc[e].id : e \in 1..ni} :
        /\ id \in DOMAIN nodes <=> CompleteIdx(id) # {}
        /\ CompleteIdx(id) # {} =>
              nodes[id] = Pt(LastTagValue(doc[MaxOf(CompleteIdx(id))], "local_x"),
                             LastTagValue(doc[MaxOf(CompleteIdx(id))], "local_y"))

\* two node elements share an id and the second, with a repeated coordinate
\* tag, replaces the first's coordinates
C8_Witness ==
    /\ pc = "parsed"
    /\ Len(doc) = 2
    /\ doc[1].id = doc[2].id
    /\ HasBothTags(doc[1])
    /\ HasBothTags(doc[2])
    /\ Cardinality(TagIdx(doc[2], "local_x")) = 2
    /\ nodes[doc[1].id].x \notin TagValues(doc[1], "local_x")
    /\ nodes[doc[1].id].x = 0

====
